---- MODULE Spec2Model ----
(***************************************************************************)
(* Bstream: a blocking, length-prefixed framing layer over a TcpStream.    *)
(* One full-duplex connection with the endpoints "A" and "B"; every        *)
(* Bstream is a handle on one endpoint.  read() is modelled per iteration  *)
(* of its loop (each iteration blocks in one transport read), write(),     *)
(* shutdown() and clone() are single steps.                                *)
(***************************************************************************)
EXTENDS Integers, Sequences, FiniteSets, TLC

\* ------------------------------------------------------------------ bounds
MaxCalls == 3        \* calls of read(), shutdown() and clone() on local handles in a run
MaxWire == 5         \* bytes put on the wire to an endpoint in a run, after the first write
MaxLen == 2          \* longest payload of the narrow specification
MaxFrag == 8         \* transport deliveries of at most MaxFrag bytes fragment freely

\* ------------------------------------------------------- program constants
U16 == 65536         \* `as u16`: lengths are kept modulo 2^16
U8 == 256            \* `as u8`: one byte

ByteVals == {0, 1}
\* The Bstream handles of a run.  Rd, on the local endpoint, and Peer, on the
\* remote one, are made by Bstream::new at Init; Dup is made by clone().
Rd == "rd"
Peer == "peer"
Dup == "dup"
Streams == {Rd, Peer, Dup}
Local == Streams \ {Peer}
Ends == {"A", "B"}
Other(e) == IF e = "A" THEN "B" ELSE "A"
Min(a, b) == IF a < b THEN a ELSE b

\* The payload of n bytes that starts with byte b and counts on from it.
Pattern(n, b) == [i \in 1..n |-> (b + i - 1) % Cardinality(ByteVals)]
Payloads == {Pattern(n, b) : n \in 0..MaxLen, b \in ByteVals}

\* lengths around the byte and the 16-bit boundaries, one fill value each
WideLens == {0, 1, 255, 256, 257, 65535, 65536, 65537}
WidePayloads == {[i \in 1..n |-> 1] : n \in WideLens}

VARIABLES
    state,       \* state[s]: Bstream.state, "PayloadLen" or "Payload"
    buffer,      \* buffer[s]: Bstream.buffer, a ReadBuffer
    endp,        \* endp[s]: the endpoint Bstream.stream is a handle on
    pc,          \* pc[s]: "none" (no such Bstream), "idle", "read" (inside
                 \*        read()'s loop, before a transport read), "recv0" (inside
                 \*        a transport read of zero bytes that waits for the
                 \*        socket to be readable), "panic" (its caller panicked)
    res,         \* res[s]: the outcome of the last call on s
    io,          \* io[s]: the last transport read of s: bytes asked, bytes got
    wire,        \* wire[e]: bytes in flight to endpoint e, oldest first
    shut,        \* shut[e]: endpoint e has shut the connection down
    broken,      \* broken[e]: the send direction of e has failed
    sent,        \* sent[e]: payloads of the write()s to e that returned Ok
    got,         \* got[s]: frames the read()s of s returned
    taken,       \* taken[e]: Bstreams that took bytes off wire[e]
    handed,      \* the last write(): its caller and payload, what write_all and
                 \*        flush returned, how many bytes of n_buffer reached
                 \*        the wire, and what write() returned
    put,         \* put[e]: all the bytes ever put on the wire to endpoint e
    clean,       \* clean[e]: how many write()s to e had returned Ok when a
                 \*        payload of more than 65535 bytes was first written
                 \*        to e; -1 while there was none
    ncalls

vars == <<state, buffer, endp, pc, res, io, wire, shut, broken,
          sent, got, taken, handed, put, clean, ncalls>>

\* -------------------------------------------------------------- ReadBuffer
\* (super::readbuffer::ReadBuffer, from section 4.1 of the specification)
ReadBuffer_new == [acc |-> <<>>, capacity |-> 2, p_len |-> 0, queue |-> <<>>]

remaining(b) == b.capacity - Len(b.acc)

push(b, byte) == [b EXCEPT !.acc = Append(@, byte)]

current_buffer(b) == b.acc

calc_payload_len(b) == [b EXCEPT !.p_len = U8 * b.acc[1] + b.acc[2]]

payload_len(b) == b.p_len

set_capacity(b, n) == [b EXCEPT !.capacity = n, !.acc = <<>>]

reset(b) == [b EXCEPT !.queue = Append(@, b.acc), !.acc = <<>>, !.capacity = 2]

drain_queue(b) == [frames |-> b.queue, buffer |-> [b EXCEPT !.queue = <<>>]]

\* ----------------------------------------------------------------- Bstream
Bstream_new == [state |-> "PayloadLen", buffer |-> ReadBuffer_new]

NoRes == [op |-> "none", kind |-> "none", val |-> <<>>]
NoIo == [req |-> -1, ret |-> -1]
NoHanded == [by |-> "none", payload |-> <<>>, kind |-> "none", wrote |-> 0,
             wa |-> "none", fl |-> "none"]

Init ==
    /\ state = [s \in Streams |-> Bstream_new.state]
    /\ buffer = [s \in Streams |-> Bstream_new.buffer]
    /\ endp = [s \in Streams |-> IF s = Peer THEN "B" ELSE "A"]
    /\ pc = [s \in Streams |-> IF s \in {Rd, Peer} THEN "idle" ELSE "none"]
    /\ res = [s \in Streams |-> NoRes]
    /\ io = [s \in Streams |-> NoIo]
    /\ wire = [e \in Ends |-> <<>>]
    /\ shut = [e \in Ends |-> FALSE]
    /\ broken = [e \in Ends |-> FALSE]
    /\ sent = [e \in Ends |-> <<>>]
    /\ got = [s \in Streams |-> <<>>]
    /\ taken = [e \in Ends |-> {}]
    /\ handed = NoHanded
    /\ put = [e \in Ends |-> <<>>]
    /\ clean = [e \in Ends |-> -1]
    /\ ncalls = 0


\* ------------------------------------------------------- the TCP transport
\* Sizes a delivery of at most m bytes may have: any size when m is small,
\* the whole of it or all but its last byte when it is large.
Fragments(m) == {k \in 1..m : m <= MaxFrag \/ k = m \/ k = m - 1}

\* Endpoint e has data to read or has seen the connection end.
Readable(e) ==
    Len(wire[e]) > 0 \/ shut["A"] \/ shut["B"] \/ broken[Other(e)]

\* The outcomes of self.stream.read(&mut buffer[..]) with a buffer of `count`
\* bytes on endpoint e: an error; n >= 1 bytes of what is in flight; zero
\* bytes at the end of the stream; for an empty buffer zero bytes, either at
\* once (read(2) of zero bytes) or, kind "Wait", only when the socket is
\* readable (recv(2) of zero bytes on Linux).  With count > 0 and nothing to
\* deliver the call blocks.
TcpRead(e, count) ==
    {[kind |-> "Err", n |-> 0]}
    \cup {[kind |-> "Ok", n |-> k] : k \in Fragments(Min(count, Len(wire[e])))}
    \cup {[kind |-> "Ok", n |-> 0] : x \in {y \in {1} : count = 0}}
    \cup {[kind |-> "Wait", n |-> 0] : x \in {y \in {1} : count = 0 /\ ~Readable(e)}}
    \cup {[kind |-> "Ok", n |-> 0] :
            x \in {y \in {1} : count > 0 /\ Len(wire[e]) = 0 /\ Readable(e)}}

\* Byte counts a failed write_all may have put on the wire before failing.
PartialWrites(len) == {k \in 0..(len - 1) : k <= 1 \/ k = len - 1}

\* The outcomes of self.stream.write_all(&n_buffer[..]) on endpoint e.
TcpWriteAll(e, len) ==
    IF broken[e] THEN {[kind |-> "Err", n |-> 0]}
    ELSE {[kind |-> "Ok", n |-> len]}
         \cup {[kind |-> "Err", n |-> k] : k \in PartialWrites(len)}

\* self.stream.flush(): std::net::TcpStream::flush does nothing and is Ok(()).
TcpFlush == "Ok"

\* The outcomes of self.stream.shutdown(Shutdown::Both) on endpoint e: it can
\* fail (NotConnected) once the connection was shut down or reset.
TcpShutdown(e) ==
    IF shut[e] \/ broken[e] \/ broken[Other(e)] THEN {"Ok", "Err"} ELSE {"Ok"}

\* ------------------------------------------------------------ Bstream::read
\* push_all that puts the bytes of a transport read before those accumulated.
push_all_front(b, bytes) == [b EXCEPT !.acc = bytes \o @]

\* `for x in 0..num_read { self.buffer.push(buffer[x]); }`
push_all(b, bytes) == [b EXCEPT !.acc = @ \o bytes]

\* loop_body with the payload phase ended by whatever the transport read
\* returned, complete or not.
loop_body_early(st, b, bytes) ==
    LET b1 == push_all(b, bytes)
    IN  IF st = "Payload"
        THEN [state |-> "PayloadLen", buffer |-> reset(b1), brk |-> TRUE]
        ELSE IF remaining(b1) = 0
             THEN LET b2 == calc_payload_len(b1)
                  IN  [state |-> "Payload",
                       buffer |-> set_capacity(b2, payload_len(b2)),
                       brk |-> FALSE]
             ELSE [state |-> st, buffer |-> b1, brk |-> FALSE]

\* loop_body that leaves the loop when the length prefix is complete as well.
loop_body_break_twice(st, b, bytes) ==
    LET b1 == push_all(b, bytes)
    IN  IF remaining(b1) = 0
        THEN IF st = "PayloadLen"
             THEN LET b2 == calc_payload_len(b1)
                  IN  [state |-> "Payload",
                       buffer |-> set_capacity(b2, payload_len(b2)),
                       brk |-> TRUE]
             ELSE [state |-> "PayloadLen", buffer |-> reset(b1), brk |-> TRUE]
        ELSE [state |-> st, buffer |-> b1, brk |-> FALSE]

\* loop_body that takes the first prefix byte alone for the payload length.
loop_body_short_prefix(st, b, bytes) ==
    LET b1 == push_all(b, bytes)
    IN  IF st = "PayloadLen" /\ Len(b1.acc) >= 1
        THEN [state |-> "Payload",
              buffer |-> set_capacity(b1, b1.acc[1]),
              brk |-> FALSE]
        ELSE IF remaining(b1) = 0 /\ st = "Payload"
             THEN [state |-> "PayloadLen", buffer |-> reset(b1), brk |-> TRUE]
             ELSE [state |-> st, buffer |-> b1, brk |-> FALSE]

\* One iteration of the loop after a transport read that returned `bytes`:
\* the new state and buffer, and whether the loop is left (break).
loop_body(st, b, bytes) ==
    LET b1 == push_all(b, bytes)
    IN  IF remaining(b1) = 0
        THEN IF st = "PayloadLen"
             THEN LET b2 == calc_payload_len(b1)
                  IN  [state |-> "Payload",
                       buffer |-> set_capacity(b2, payload_len(b2)),
                       brk |-> FALSE]
             ELSE [state |-> "PayloadLen", buffer |-> reset(b1), brk |-> TRUE]
        ELSE [state |-> st, buffer |-> b1, brk |-> FALSE]

\* after_loop that returns the frame and leaves it in the queue.
after_loop_undrained(b) ==
    LET d == drain_queue(b)
    IN  IF Len(d.frames) # 1
        THEN [kind |-> "Panic", val |-> <<>>, buffer |-> b]
        ELSE [kind |-> "Ok", val |-> d.frames[Len(d.frames)], buffer |-> b]

\* After the loop: drain the queue, panic unless it held one frame, return it.
after_loop(b) ==
    LET d == drain_queue(b)
    IN  IF Len(d.frames) # 1
        THEN [kind |-> "Panic", val |-> <<>>, buffer |-> d.buffer]
        ELSE [kind |-> "Ok", val |-> d.frames[Len(d.frames)], buffer |-> d.buffer]

\* read_err that starts the framing over before it returns the error.
read_err_reset(st, b) ==
    [state |-> Bstream_new.state, buffer |-> Bstream_new.buffer, kind |-> "Err"]

\* read_err that returns the transport read's error as an empty frame.
read_err_swallowed(st, b) == [state |-> st, buffer |-> b, kind |-> "Ok"]

\* What read() does with a transport read's error: return it.
read_err(st, b) == [state |-> st, buffer |-> b, kind |-> "Err"]

\* count that is the capacity of the phase, whatever is accumulated already.
count_capacity(b) == b.capacity

\* count that asks for one byte more than the phase still needs.
count_more(b) == remaining(b) + 1

\* `let count = self.buffer.remaining();`: the size of the buffer handed to
\* the transport read.
count(b) == remaining(b)

\* read() is entered.
read_call(s) ==
    /\ pc[s] = "idle"
    /\ ncalls < MaxCalls
    /\ pc' = [pc EXCEPT ![s] = "read"]
    /\ res' = [res EXCEPT ![s] = [op |-> "read", kind |-> "pending", val |-> <<>>]]
    /\ io' = [io EXCEPT ![s] = NoIo]
    /\ ncalls' = ncalls + 1
    /\ UNCHANGED <<state, buffer, endp, wire, shut, broken,
                   sent, got, taken, handed, put, clean>>

\* The rest of an iteration of read()'s loop on s once its transport read,
\* which asked for `asked` bytes, has returned r; and what follows the loop
\* when the iteration breaks out of it.
read_then(s, asked, r) ==
    LET e == endp[s]
    IN  /\ io' = [io EXCEPT ![s] = [req |-> asked,
                                    ret |-> IF r.kind = "Err" THEN -2 ELSE r.n]]
        /\ IF r.kind = "Err"
           THEN LET o == read_err(state[s], buffer[s])
                IN  /\ state' = [state EXCEPT ![s] = o.state]
                    /\ buffer' = [buffer EXCEPT ![s] = o.buffer]
                    /\ pc' = [pc EXCEPT ![s] = "idle"]
                    /\ res' = [res EXCEPT ![s] =
                                 [op |-> "read", kind |-> o.kind, val |-> <<>>]]
                    /\ UNCHANGED <<wire, got, taken>>
           ELSE LET bytes == SubSeq(wire[e], 1, r.n)
                    it == loop_body(state[s], buffer[s], bytes)
                    al == after_loop(it.buffer)
                IN  /\ wire' = [wire EXCEPT ![e] = SubSeq(@, r.n + 1, Len(@))]
                    /\ taken' = [taken EXCEPT ![e] =
                                   IF r.n > 0 THEN @ \cup {s} ELSE @]
                    /\ state' = [state EXCEPT ![s] = it.state]
                    /\ IF it.brk
                       THEN /\ buffer' = [buffer EXCEPT ![s] = al.buffer]
                            /\ pc' = [pc EXCEPT ![s] =
                                        IF al.kind = "Ok" THEN "idle" ELSE "panic"]
                            /\ res' = [res EXCEPT ![s] =
                                         [op |-> "read", kind |-> al.kind,
                                          val |-> al.val]]
                            /\ got' = [got EXCEPT ![s] =
                                         IF al.kind = "Ok" THEN Append(@, al.val)
                                         ELSE @]
                       ELSE /\ buffer' = [buffer EXCEPT ![s] = it.buffer]
                            /\ pc' = [pc EXCEPT ![s] = "read"]
                            /\ UNCHANGED <<res, got>>

\* One iteration of read()'s loop: the transport read returns, or (a read of
\* zero bytes on an unreadable socket) starts to wait.
read_loop(s) ==
    /\ pc[s] = "read"
    /\ LET asked == count(buffer[s])
       IN  \E r \in TcpRead(endp[s], asked) :
             IF r.kind = "Wait"
             THEN /\ pc' = [pc EXCEPT ![s] = "recv0"]
                  /\ io' = [io EXCEPT ![s] = [req |-> asked, ret |-> -1]]
                  /\ UNCHANGED <<state, buffer, res, wire, got, taken>>
             ELSE read_then(s, asked, r)
    /\ UNCHANGED <<endp, shut, broken, sent, handed, put, clean, ncalls>>

\* The waiting transport read of zero bytes returns: the socket is readable.
read_wake(s) ==
    /\ pc[s] = "recv0"
    /\ Readable(endp[s])
    /\ read_then(s, 0, [kind |-> "Ok", n |-> 0])
    /\ UNCHANGED <<endp, shut, broken, sent, handed, put, clean, ncalls>>

\* ----------------------------------------------------------- Bstream::write
\* plen_buf with the two bytes in little-endian order.
plen_buf_le(len) ==
    LET plen == len % U16
    IN  <<plen % U8, (plen \div U8) % U8>>

\* plen_buf: the two prefix bytes of a buffer of `len` bytes.
plen_buf(len) ==
    LET plen == len % U16
    IN  <<(plen \div U8) % U8, plen % U8>>

\* n_buffer with a prefix that counts its own two bytes.
n_buffer_incl(payload) == plen_buf(Len(payload) + 2) \o payload

\* n_buffer: the prefix followed by the payload.
n_buffer(payload) == plen_buf(Len(payload)) \o payload

\* write_result that drops write_all's error as well.
write_result_ok(wa, fl) == "Ok"

\* The match on write_all's result; flush's result is dropped.
write_result(wa, fl) == IF wa = "Ok" THEN "Ok" ELSE "Err"

\* write that starts a fresh frame buffer on its Bstream.
write_fresh(s, payload) ==
    /\ pc[s] = "idle"
    /\ LET e == endp[s]
           d == Other(e)
           buf == n_buffer(payload)
       IN  /\ Len(put[d]) = 0 \/ Len(put[d]) + Len(buf) <= MaxWire
           /\ \E w \in TcpWriteAll(e, Len(buf)) :
             LET fl == IF w.kind = "Ok" THEN TcpFlush ELSE "none"
                 k == write_result(w.kind, fl)
             IN  /\ wire' = [wire EXCEPT ![d] = @ \o SubSeq(buf, 1, w.n)]
                 /\ broken' = [broken EXCEPT ![e] = @ \/ w.kind = "Err"]
                 /\ res' = [res EXCEPT ![s] =
                              [op |-> "write", kind |-> k, val |-> <<>>]]
                 /\ sent' = [sent EXCEPT ![d] =
                               IF w.kind = "Ok" THEN Append(@, payload) ELSE @]
                 /\ handed' = [by |-> s, payload |-> payload, kind |-> k,
                               wrote |-> w.n, wa |-> w.kind, fl |-> fl]
                 /\ put' = [put EXCEPT ![d] = @ \o SubSeq(buf, 1, w.n)]
                 /\ clean' = [clean EXCEPT ![d] =
                                IF @ = -1 /\ Len(payload) >= U16
                                THEN Len(sent[d]) ELSE @]
    /\ state' = [state EXCEPT ![s] = Bstream_new.state]
    /\ buffer' = [buffer EXCEPT ![s] = Bstream_new.buffer]
    /\ UNCHANGED <<endp, pc, io, shut, got, taken, ncalls>>

write(s, payload) ==
    /\ pc[s] = "idle"
    /\ LET e == endp[s]
           d == Other(e)
           buf == n_buffer(payload)
       IN  /\ Len(put[d]) = 0 \/ Len(put[d]) + Len(buf) <= MaxWire
           /\ \E w \in TcpWriteAll(e, Len(buf)) :
             LET fl == IF w.kind = "Ok" THEN TcpFlush ELSE "none"
                 k == write_result(w.kind, fl)
             IN  /\ wire' = [wire EXCEPT ![d] = @ \o SubSeq(buf, 1, w.n)]
                 /\ broken' = [broken EXCEPT ![e] = @ \/ w.kind = "Err"]
                 /\ res' = [res EXCEPT ![s] =
                              [op |-> "write", kind |-> k, val |-> <<>>]]
                 /\ sent' = [sent EXCEPT ![d] =
                               IF w.kind = "Ok" THEN Append(@, payload) ELSE @]
                 /\ handed' = [by |-> s, payload |-> payload, kind |-> k,
                               wrote |-> w.n, wa |-> w.kind, fl |-> fl]
                 /\ put' = [put EXCEPT ![d] = @ \o SubSeq(buf, 1, w.n)]
                 /\ clean' = [clean EXCEPT ![d] =
                                IF @ = -1 /\ Len(payload) >= U16
                                THEN Len(sent[d]) ELSE @]
    /\ UNCHANGED <<state, buffer, endp, pc, io, shut, got,
                   taken, ncalls>>

\* -------------------------------------------------------- Bstream::shutdown
shutdown_result(r) == IF r = "Err" THEN "Panic" ELSE "Ok"

shutdown(s) ==
    /\ pc[s] = "idle"
    /\ s \in Local => ncalls < MaxCalls
    /\ \E r \in TcpShutdown(endp[s]) :
         LET k == shutdown_result(r)
         IN  /\ res' = [res EXCEPT ![s] =
                          [op |-> "shutdown", kind |-> k, val |-> <<>>]]
             /\ pc' = [pc EXCEPT ![s] = IF k = "Panic" THEN "panic" ELSE "idle"]
    /\ shut' = [shut EXCEPT ![endp[s]] = TRUE]
    /\ broken' = [broken EXCEPT ![endp[s]] = TRUE]
    /\ ncalls' = IF s \in Local THEN ncalls + 1 ELSE ncalls
    /\ UNCHANGED <<state, buffer, endp, io, wire, sent, got,
                   taken, handed, put, clean>>

\* ------------------------------------------------------- Clone for Bstream
clone(st, b) == [state |-> st, buffer |-> b]

\* s.clone() becomes the Bstream t, a handle on the same endpoint.
do_clone(s, t) ==
    /\ pc[s] = "idle"
    /\ pc[t] = "none"
    /\ ncalls < MaxCalls
    /\ LET c == clone(state[s], buffer[s])
       IN  /\ state' = [state EXCEPT ![t] = c.state]
           /\ buffer' = [buffer EXCEPT ![t] = c.buffer]
    /\ endp' = [endp EXCEPT ![t] = endp[s]]
    /\ pc' = [pc EXCEPT ![t] = "idle"]
    /\ res' = [res EXCEPT ![t] = [op |-> "clone", kind |-> "Ok", val |-> <<>>]]
    /\ ncalls' = ncalls + 1
    /\ UNCHANGED <<io, wire, shut, broken, sent, got, taken,
                   handed, put, clean>>

\* ---------------------------------------------------------- specifications
Next ==
    \/ \E s \in Local : read_call(s)
    \/ \E s \in Local : read_loop(s)
    \/ \E s \in Local : read_wake(s)
    \/ \E p \in Payloads : write(Peer, p)
    \/ \E s \in Streams : shutdown(s)
    \/ \E s \in Local, t \in Local : do_clone(s, t)

Spec == Init /\ [][Next]_vars

\* The peer writes payloads whose lengths lie around the 8-bit and the 16-bit
\* boundaries, and one local Bstream reads.
NextWide ==
    \/ \E p \in WidePayloads : write(Peer, p)
    \/ read_call(Rd)
    \/ read_loop(Rd)
    \/ read_wake(Rd)

SpecWide == Init /\ [][NextWide]_vars

\* One local Bstream reads what the peer writes, and the peer may shut the
\* connection down.  A transport read that can return does return in the end:
\* a blocking recv() returns once the socket is readable.
NextLive ==
    \/ \E p \in Payloads : write(Peer, p)
    \/ shutdown(Peer)
    \/ read_call(Rd)
    \/ read_loop(Rd)
    \/ read_wake(Rd)

LiveSpec ==
    /\ Init
    /\ [][NextLive]_vars
    /\ WF_vars(read_loop(Rd))
    /\ WF_vars(read_wake(Rd))

\* A full-duplex use of the connection: the local Bstream reads what the peer
\* writes, and its clone writes to the peer.
\* The frame of payload p fits in what a duplex run puts on the two wires.
Room(p) == Len(put["A"]) + Len(put["B"]) + Len(n_buffer(p)) <= MaxWire

NextDuplex ==
    \/ \E p \in Payloads : Room(p) /\ write(Peer, p)
    \/ do_clone(Rd, Dup)
    \/ \E p \in Payloads : Room(p) /\ write(Dup, p)
    \/ read_call(Rd)
    \/ read_loop(Rd)
    \/ read_wake(Rd)

SpecDuplex == Init /\ [][NextDuplex]_vars

\* ------------------------------------------------------------- the claims
InRange(p) == Len(p) < U16
IsPrefix(a, b) == Len(a) <= Len(b) /\ \A i \in 1..Len(a) : a[i] = b[i]
InRead(s) == pc[s] \in {"read", "recv0"}

\* s is the only Bstream that has taken bytes sent to the local endpoint.
Sole(s) == taken["A"] \subseteq {s}

\* The wire form of a sequence of frames.
RECURSIVE Flat(_)
Flat(frames) ==
    IF frames = <<>> THEN <<>> ELSE n_buffer(Head(frames)) \o Flat(Tail(frames))

\* The bytes of the frame s is in the middle of: its prefix once decoded, and
\* what is accumulated.
Progress(s) ==
    IF state[s] = "PayloadLen" THEN buffer[s].acc
    ELSE <<buffer[s].capacity \div U8, buffer[s].capacity % U8>> \o buffer[s].acc

\* C1: round trip.  For a single reader, the i-th frame read() returns is the
\* payload of the i-th write() of the peer that returned Ok, byte for byte, as
\* long as every payload written before it had at most 65535 bytes.
C1_RoundTrip ==
    \A s \in Local :
      Sole(s) =>
        \A i \in 1..Len(got[s]) :
          (clean["A"] = -1 \/ i <= clean["A"])
            => i <= Len(sent["A"]) /\ got[s][i] = sent["A"][i]

\* A payload of 257 bytes, whose length needs both prefix bytes, has been
\* written and read back.
C1_Witness ==
    /\ Len(got[Rd]) = 1
    /\ Len(got[Rd][1]) = 257
    /\ got[Rd] = sent["A"]

\* C2: a write() of more than 65535 bytes returns an error and no byte of it
\* reaches the transport.
C2_OversizeRejected ==
    Len(handed.payload) >= U16 => handed.kind = "Err" /\ handed.wrote = 0

\* C3: a transport read that returns zero bytes while the frame is incomplete
\* makes read() return an error; read() is not left in its loop.
C3_EofIsAnError ==
    \A s \in Streams :
      io[s].req > 0 /\ io[s].ret = 0 => pc[s] = "idle" /\ res[s].kind = "Err"

\* C4: a Bstream made by clone() starts with fresh framing state.
C4_DuplicateIsFresh ==
    \A s \in Streams :
      res[s].op = "clone" =>
        /\ state[s] = "PayloadLen"
        /\ buffer[s].acc = <<>>
        /\ buffer[s].capacity = 2
        /\ buffer[s].queue = <<>>

\* C5: under every fragmentation, a single reader returns whole frames only,
\* each once: the frames it has returned are the first payloads written, and
\* their wire form, followed by the bytes of the frame in progress and by the
\* bytes still in flight, is exactly what was put on the wire.
C5_WholeFrames ==
    \A s \in Local :
      Sole(s) =>
        /\ IsPrefix(got[s], sent["A"])
        /\ Flat(got[s]) \o Progress(s) \o wire["A"] = put["A"]

\* A payload of two bytes has been returned by a read() whose last transport
\* read asked for, and got, one byte: the frame came in pieces.
C5_Witness ==
    /\ res[Rd] = [op |-> "read", kind |-> "Ok", val |-> <<0, 1>>]
    /\ io[Rd] = [req |-> 1, ret |-> 1]
    /\ got[Rd] = sent["A"]

\* The whole frame s is reading has arrived.
FrameReady(s) ==
    LET bytes == Progress(s) \o wire["A"]
    IN  /\ Len(bytes) >= 2
        /\ Len(bytes) >= 2 + U8 * bytes[1] + bytes[2]

\* C6: a read() of the single reader whose whole frame has arrived returns in
\* the end.
C6_ReadReturns ==
    (InRead(Rd) /\ Sole(Rd) /\ FrameReady(Rd)) ~> ~InRead(Rd)

\* C7: write() of a payload of L <= 65535 bytes hands the transport 2+L
\* bytes: L div 256, L mod 256, then the payload.  The bytes the write put on
\* the wire are the first bytes of that buffer, and all of it when write()
\* returned Ok.
C7_WireFormat ==
    (handed.by # "none" /\ InRange(handed.payload)) =>
      LET L == Len(handed.payload)
          frame == <<L \div 256, L % 256>> \o handed.payload
          all == put[Other(endp[handed.by])]
      IN  /\ handed.wrote <= Len(all)
          /\ SubSeq(all, Len(all) - handed.wrote + 1, Len(all))
               = SubSeq(frame, 1, handed.wrote)
          /\ handed.kind = "Ok" => handed.wrote = 2 + L

\* A write() of 256 bytes, whose length needs the high prefix byte, returned Ok.
C7_Witness ==
    /\ handed.kind = "Ok"
    /\ Len(handed.payload) = 256
    /\ SubSeq(wire["A"], 1, 2) = <<1, 0>>

\* C8: read() issues no transport read that asks for zero bytes.
C8_NoZeroByteRead ==
    \A s \in Streams : io[s].req # 0

C10_ShutdownReturnsError ==
    \A s \in Streams :
      res[s].op = "shutdown" => res[s].kind \in {"Ok", "Err"} /\ pc[s] # "panic"

\* The reader of a reader/writer pair returns the peer's frames in order, and
\* the writer's write()s that returned Ok put their frames, whole and one
\* after the other, on the wire to the peer.
DuplexFrames ==
    /\ \A i \in 1..Len(got[Rd]) :
         i <= Len(sent["A"]) /\ got[Rd][i] = sent["A"][i]
    /\ IsPrefix(Flat(sent["B"]), put["B"])
    /\ ~broken["A"] => put["B"] = Flat(sent["B"])

\* C11: with a Bstream used only for read() and its clone used only for
\* write(), under every interleaving the reader returns the frames the peer
\* sent, in order, every write() puts one well-formed frame on the wire, and
\* a write() on the clone changes the state and the buffer of no Bstream.
C11_ReaderWriterIndependent ==
    /\ []DuplexFrames
    /\ [][(\E p \in Payloads : write(Dup, p))
            => UNCHANGED <<state, buffer>>]_vars

\* The clone has written a frame while the reader was in the middle of one,
\* its prefix taken and its payload not yet.
C11_Witness ==
    /\ handed.by = Dup /\ handed.kind = "Ok"
    /\ pc[Rd] = "read" /\ state[Rd] = "Payload" /\ Len(Progress(Rd)) = 2
    /\ put["B"] = n_buffer(handed.payload)

\* C12: when a transport read inside read() returns an error, read() returns
\* an error and makes no further transport read in that call.
C12_ReadErrorReturned ==
    \A s \in Streams :
      io[s].ret = -2 =>
        /\ ~InRead(s)
        /\ res[s].op = "read" => res[s].kind = "Err"

\* A read() has returned the error of a transport read made in the middle of
\* a length prefix.
C12_Witness ==
    /\ io[Rd] = [req |-> 1, ret |-> -2]
    /\ res[Rd] = [op |-> "read", kind |-> "Err", val |-> <<>>]
    /\ pc[Rd] = "idle"

\* C13: frame boundary.  A transport read asks for exactly what the phase
\* still needs (after one that got less than it asked for, what is still
\* needed is the difference), and when a read() of a single reader has
\* returned a frame, the bytes taken off the transport are exactly the 2+L
\* bytes of each frame returned: every later byte is still on the transport.
C13_FrameBoundary ==
    \A s \in Local :
      /\ (pc[s] = "read" /\ io[s].ret >= 0 /\ io[s].ret < io[s].req)
            => io[s].req = io[s].ret + remaining(buffer[s])
      /\ (Sole(s) /\ pc[s] = "idle" /\ res[s].op = "read" /\ res[s].kind = "Ok")
            => /\ Len(put["A"]) - Len(wire["A"]) = Len(Flat(got[s]))
               /\ wire["A"] = SubSeq(put["A"], Len(Flat(got[s])) + 1, Len(put["A"]))

\* A read() has returned the first of two frames the peer wrote, and the
\* second is whole on the transport.
C13_Witness ==
    /\ res[Rd].op = "read" /\ res[Rd].kind = "Ok" /\ pc[Rd] = "idle"
    /\ Len(sent["A"]) = 2 /\ got[Rd] = <<sent["A"][1]>>
    /\ Len(sent["A"][1]) = 1
    /\ wire["A"] = n_buffer(sent["A"][2])
    /\ ncalls = 1

\* C14: ordering.  What a single reader has returned, one frame per read()
\* call, is the payloads the peer wrote, in the order it wrote them: the
\* k-th frame returned is the k-th payload written, and the last read() that
\* returned Ok returned the latest of them.
C14_Ordering ==
    /\ Len(got[Rd]) + Len(got[Dup]) <= ncalls
    /\ \A s \in Local :
         Sole(s) =>
           /\ Len(got[s]) <= Len(sent["A"])
           /\ got[s] = SubSeq(sent["A"], 1, Len(got[s]))
           /\ (res[s].op = "read" /\ res[s].kind = "Ok")
                 => res[s].val = sent["A"][Len(got[s])]

\* Two read() calls have returned two different payloads in the order the
\* peer wrote them.
C14_Witness ==
    /\ ncalls = 2
    /\ got[Rd] = <<Pattern(1, 1), Pattern(0, 0)>>
    /\ sent["A"] = got[Rd]
    /\ res[Rd].val = Pattern(0, 0)

\* C15: in every state the accumulator of a Bstream holds at most as many
\* bytes as the target capacity of its phase.
C15_AccWithinCapacity ==
    \A s \in Streams :
      /\ Len(buffer[s].acc) <= buffer[s].capacity
      /\ remaining(buffer[s]) >= 0

\* A transport read for a payload of two bytes has returned one byte, which
\* is accumulated.
C15_Witness ==
    /\ state[Rd] = "Payload"
    /\ buffer[Rd].capacity = 2
    /\ Len(buffer[Rd].acc) = 1
    /\ io[Rd] = [req |-> 2, ret |-> 1]

\* C16: read() leaves its loop with exactly one frame in the queue, so no
\* read() panics, and between calls the queue of every Bstream is empty; also
\* for a read() after a failed one and for a read() on a clone.
C16_OneFrameDrained ==
    \A s \in Streams :
      /\ res[s].op = "read" => res[s].kind # "Panic"
      /\ pc[s] = "panic" => res[s].op = "shutdown"
      /\ buffer[s].queue = <<>>

\* A read() on a clone has returned a frame, the clone made after a read()
\* on the original had failed in the middle of that frame.
C16_Witness ==
    /\ res[Rd].op = "read" /\ res[Rd].kind = "Err"
    /\ Len(buffer[Rd].acc) = 1
    /\ res[Dup].op = "read" /\ res[Dup].kind = "Ok"
    /\ Len(got[Dup]) = 1

\* The bytes a step takes off the wire to the endpoint of s.
Taken(s) ==
    SubSeq(wire[endp[s]], 1, Len(wire[endp[s]]) - Len(wire'[endp[s]]))

\* C17: the read state and the target capacity agree.  In state PayloadLen
\* the capacity is 2.  A step of read() moves a Bstream to state Payload only
\* when the bytes accumulated, with those the step takes, are exactly two
\* bytes b0, b1, and then the capacity is 256*b0 + b1 and the accumulator is
\* empty.  A step moves it back to PayloadLen only when the bytes accumulated,
\* with those the step takes, are exactly as many as the capacity.
C17_StateCapacityAgree ==
    /\ [](\A s \in Streams : state[s] = "PayloadLen" => buffer[s].capacity = 2)
    /\ [][\A s \in Streams :
            /\ (InRead(s) /\ state[s] = "PayloadLen" /\ state'[s] = "Payload")
                  => LET all == buffer[s].acc \o Taken(s)
                     IN  /\ Len(all) = 2
                         /\ buffer'[s].capacity = 256 * all[1] + all[2]
                         /\ buffer'[s].acc = <<>>
            /\ (InRead(s) /\ state[s] = "Payload" /\ state'[s] = "PayloadLen")
                  => Len(buffer[s].acc) + Len(Taken(s)) = buffer[s].capacity
            /\ (state'[s] # state[s]) => (InRead(s) \/ pc[s] = "none")]_vars

\* A prefix whose high byte is not zero has been decoded: the Bstream is in
\* state Payload with capacity 256.
C17_Witness ==
    /\ state[Dup] = "Payload"
    /\ buffer[Dup].capacity = 256
    /\ io[Dup].ret = 1

\* s has returned a byte sequence that is the payload of no frame sent.
Garbled(s) ==
    \E i \in 1..Len(got[s]) :
      \A j \in 1..Len(sent["A"]) : got[s][i] # sent["A"][j]

\* C18: two Bstreams reading from one connection are unsafe.  A reader
\* returns a byte sequence that is no payload sent only when two Bstreams
\* have taken bytes of the connection; and there is such a run (the witness).
C18_TwoReadersUnsafe ==
    \A s \in Local : Garbled(s) => taken["A"] = {Rd, Dup}

\* Of the frames of payloads <<1>> and <<>>, the clone has taken the first
\* prefix, the original has taken the payload byte and the first byte of the
\* second prefix for a prefix of its own (length 256), and the clone has
\* returned the last byte as its payload: <<0>>, which was never sent.
C18_Witness ==
    /\ sent["A"] = <<Pattern(1, 1), Pattern(0, 0)>>
    /\ state[Rd] = "Payload" /\ buffer[Rd].capacity = 256
    /\ got[Dup] = <<Pattern(1, 0)>>
    /\ Garbled(Dup)

\* C19: after a read() that returned a frame the Bstream is in the framing
\* state Bstream::new produces: state PayloadLen, empty accumulator,
\* capacity 2, empty queue.
C19_FreshAfterRead ==
    \A s \in Streams :
      (res[s].op = "read" /\ res[s].kind = "Ok") =>
        /\ state[s] = Bstream_new.state
        /\ current_buffer(buffer[s]) = current_buffer(Bstream_new.buffer)
        /\ remaining(buffer[s]) = remaining(Bstream_new.buffer)
        /\ drain_queue(buffer[s]).frames = drain_queue(Bstream_new.buffer).frames

\* A read() has returned a frame of two bytes, which it took in two pieces.
C19_Witness ==
    /\ res[Rd].op = "read" /\ res[Rd].kind = "Ok"
    /\ Len(res[Rd].val) = 2
    /\ io[Rd] = [req |-> 1, ret |-> 1]
    /\ pc[Rd] = "idle"
    /\ payload_len(buffer[Rd]) = 2

\* The bytes a frame that starts with the bytes `held` still lacks.
Missing(held) ==
    IF Len(held) < 2 THEN 2 - Len(held)
    ELSE 2 + 256 * held[1] + held[2] - Len(held)

\* C20: a read() that returns a transport error keeps the framing state.
\* After such a read() of a single reader, the bytes it took of the frame in
\* progress are all held in the Bstream (the prefix as the decoded capacity
\* in state Payload, the rest in the accumulator), the bytes in flight are
\* the ones that follow them, and the next read() will ask for just the
\* bytes that frame still lacks.
C20_ErrorKeepsProgress ==
    \A s \in Local :
      (Sole(s) /\ pc[s] = "idle" /\ res[s].op = "read" /\ res[s].kind = "Err") =>
        LET done == Len(Flat(got[s]))
            held == Progress(s)
        IN  /\ done + Len(held) + Len(wire["A"]) = Len(put["A"])
            /\ held = SubSeq(put["A"], done + 1, done + Len(held))
            /\ (state[s] = "Payload") = (Len(held) >= 2)
            /\ count(buffer[s]) = Missing(held)

\* A read() has returned an error after it had taken the prefix and one of
\* the two payload bytes of a frame: the Bstream is left in state Payload
\* with that byte accumulated, and the next read() will ask for one byte.
C20_Witness ==
    /\ res[Rd] = [op |-> "read", kind |-> "Err", val |-> <<>>]
    /\ pc[Rd] = "idle"
    /\ state[Rd] = "Payload"
    /\ buffer[Rd].capacity = 2
    /\ Len(buffer[Rd].acc) = 1
    /\ count(buffer[Rd]) = 1

====
